---- MODULE Spec2Model ----
(***************************************************************************)
(* A model of cf (src/cf.cpp): a cp-like tool that mirrors a source file   *)
(* or directory tree onto a target with clonefile(2).                      *)
(*                                                                         *)
(* The filesystem is a function from paths (sequences of names) to nodes.  *)
(* One behaviour is one invocation `cf <flags> a t` followed by at most    *)
(* one more invocation with the same arguments.  main() and the recursion  *)
(* of copy_directory() are unfolded into steps: pc is main's position and  *)
(* stack holds one frame per active copy_directory() call.                 *)
(***************************************************************************)
EXTENDS Naturals, Sequences, FiniteSets, TLC

VARIABLES
    fs,        \* the filesystem: path -> node
    pre,       \* the filesystem when the current run started
    after1,    \* the filesystem when the first run ended
    cfg,       \* the flags parsed by main (l.141-194)
    pc,        \* main's position: start, target, dispatch, single, walk, done
    stack,     \* active copy_directory() calls, innermost last, each with the
               \* entries its loop has not reached yet; kept when the walk fails
    exitCode,  \* main's return value (134: terminated by an uncaught exception)
    ops,       \* what the current run did, in order
    run,       \* "first" or "second" invocation
    enum,      \* the order in which each source directory enumerated so far
    faulty     \* whether the OS may fail clonefile / directory enumeration

vars == <<fs, pre, after1, cfg, pc, stack, exitCode, ops, run, enum, faulty>>

----------------------------------------------------------------------------
(* Bounds *)

\* Depth of the deepest entry below the source / target root.
MaxDepth == 2
\* Modification times are 0..MaxTime.
MaxTime == 2

Times == 0..MaxTime
\* Every source file carries this mtime; target files range over Times.
SrcTime == MaxTime - 1
\* The time at which the runs happen: later than every pre-existing mtime.
Now == MaxTime + 1

\* Entry names directly below a root, and below a subdirectory; the entries
\* that may be directories.
Names == {"a", "b"}
SubNames == {"a"}
DirNames == {"a"}
NamesAt(d) == IF d = 1 THEN Names ELSE SubNames

\* argv: cf <flags> a t
Source == <<"a">>
Target == <<"t">>

\* What the user may type at a prompt (l.212, l.266).
Responses == {"y", "Y", "n"}

----------------------------------------------------------------------------
(* Paths and nodes *)

Empty == [p \in {} |-> 0]

DirNode == [kind |-> "dir"]
\* A file's data is named by the path it was first written at.
SrcFile(p) == [kind |-> "file", data |-> p, mtime |-> SrcTime, perm |-> "r--"]
DstFiles(p) == {[kind |-> "file", data |-> p, mtime |-> t, perm |-> "rw-"] : t \in Times}
FileNodes(p, side) == IF side = "src" THEN {SrcFile(p)} ELSE DstFiles(p)

RECURSIVE EntryTrees(_, _, _), Combine(_, _, _, _)
\* Every combination of subtrees for the children ns (at depth d) of p.
Combine(p, ns, d, side) ==
    IF ns = {} THEN {Empty}
    ELSE LET n == CHOOSE x \in ns : TRUE
         IN  {e @@ rest : e \in EntryTrees(Append(p, n), d, side) \cup {Empty},
                          rest \in Combine(p, ns \ {n}, d, side)}
\* Every tree that may sit at path p (depth d): a file, or a directory tree.
EntryTrees(p, d, side) ==
    {p :> f : f \in FileNodes(p, side)}
    \cup {(p :> DirNode) @@ c :
            c \in (IF d > 0 /\ p[Len(p)] \notin DirNames THEN {}
                   ELSE IF d < MaxDepth THEN Combine(p, NamesAt(d + 1), d + 1, side)
                   ELSE {Empty})}

SourceStates == {Empty} \cup EntryTrees(Source, 0, "src")
TargetStates == {Empty} \cup EntryTrees(Target, 0, "dst")

\* fs::exists, fs::is_directory
Exists(f, p) == p \in DOMAIN f
IsDirectory(f, p) == Exists(f, p) /\ f[p].kind = "dir"
IsFile(f, p) == Exists(f, p) /\ f[p].kind = "file"

Parent(p) == SubSeq(p, 1, Len(p) - 1)
\* The root directory always exists.
ParentIsDir(f, p) == Len(p) = 1 \/ IsDirectory(f, Parent(p))
IsPrefix(p, q) == Len(p) <= Len(q) /\ SubSeq(q, 1, Len(p)) = p

\* target.string() + "~"  (l.98, l.220, l.274)
Bak(p) == [p EXCEPT ![Len(p)] = p[Len(p)] \o "~"]

\* target / source.filename()  (l.78, l.256)
Join(dir, name) == Append(dir, name)
Filename(p) == p[Len(p)]

\* The names fs::directory_iterator(p) yields, in some order (l.76).
ChildNames(f, p) == {q[Len(q)] : q \in {r \in DOMAIN f : Len(r) = Len(p) + 1 /\ IsPrefix(p, r)}}
Orders(S) == {s \in [1..Cardinality(S) -> S] : \A i, j \in 1..Cardinality(S) : s[i] = s[j] => i = j}

Ev(op, path) == [op |-> op, path |-> path]

----------------------------------------------------------------------------
(* The library calls *)

\* fs::copy_file(from, to, overwrite_existing): throws unless `from` is a
\* regular file and `to` is absent or a regular file.
CopyFileThrows(f, from, to) == ~IsFile(f, from) \/ (Exists(f, to) /\ ~IsFile(f, to)) \/ ~ParentIsDir(f, to)
CopyFile(f, from, to) == (to :> [f[from] EXCEPT !.mtime = Now]) @@ f

\* fs::create_directory(p): no error when p is already a directory; throws
\* when p exists as something else or its parent is no directory.
CreateDirectoryThrows(f, p) == ~IsDirectory(f, p) /\ (Exists(f, p) \/ ~ParentIsDir(f, p))
CreateDirectory(f, p) == IF IsDirectory(f, p) THEN f ELSE (p :> DirNode) @@ f

\* fs::permissions(target, fs::status(source).permissions())  (l.108, l.285)
Permissions(f, t, s) == [f EXCEPT ![t].perm = f[s].perm]

\* clonefile(2): fails when the OS says so or the target's directory is missing;
\* otherwise the new file shares the source's data and attributes.
ClonefileFails(f, t, oserr) == oserr \/ ~ParentIsDir(f, t)
Clonefile(f, s, t) == (t :> f[s]) @@ f

----------------------------------------------------------------------------
(* The program's functions.  Each returns the filesystem and the log it     *)
(* leaves behind, with its result.                                          *)

\* clone_file with the result of clonefile ignored (l.51-54 left out).
clone_file_ignores_error(f, o, s, t, oserr) ==
    LET o1 == Append(o, Ev("clone_file", t))
    IN  IF Exists(f, t)
        THEN [ok |-> FALSE, fs |-> f, ops |-> Append(o1, Ev("fail", t))]
        ELSE IF ClonefileFails(f, t, oserr)
        THEN [ok |-> TRUE, fs |-> f, ops |-> Append(Append(o1, Ev("clonefile_error", t)), Ev("fail", t))]
        ELSE [ok |-> TRUE, fs |-> Clonefile(f, s, t), ops |-> Append(o1, Ev("cloned", t))]

\* clone_file (l.31-57): refuses an existing target, else calls clonefile.
clone_file(f, o, s, t, oserr) ==
    LET o1 == Append(o, Ev("clone_file", t))
    IN  IF Exists(f, t)
        THEN [ok |-> FALSE, fs |-> f, ops |-> Append(o1, Ev("fail", t))]
        ELSE IF ClonefileFails(f, t, oserr)
        THEN [ok |-> FALSE, fs |-> f, ops |-> Append(Append(o1, Ev("clonefile_error", t)), Ev("fail", t))]
        ELSE [ok |-> TRUE, fs |-> Clonefile(f, s, t), ops |-> Append(o1, Ev("cloned", t))]

\* is_newer with >= for > (l.63).
is_newer_or_equal(f, s, t) == f[s].mtime >= f[t].mtime

\* is_newer (l.60-64)
is_newer(f, s, t) == f[s].mtime > f[t].mtime

\* response != 'y' && response != 'Y'  (l.213, l.267)
Declined(response) == response # "y" /\ response # "Y"

\* The "File exists" test with the force flag's sense dropped (l.222).
file_exists_ignored(f, c) == FALSE

\* main, l.222: !force && fs::exists(target)
file_exists(f, c) == ~c.force /\ Exists(f, Target)

\* target_check with `if (backup || force)` for `if (backup)` (l.218).
target_check_backup_on_force(f, o, c, response) ==
    IF Exists(f, Target)
    THEN IF ~IsDirectory(f, Target)
         THEN LET o1 == IF c.interactive THEN Append(o, Ev("prompt", Target)) ELSE o
                  bk == c.backup \/ c.force
              IN  IF c.interactive /\ Declined(response)
                  THEN [fs |-> f, ops |-> Append(o1, Ev("declined", Target)), out |-> "exit0"]
                  ELSE IF bk /\ CopyFileThrows(f, Target, Bak(Target))
                  THEN [fs |-> f, ops |-> Append(o1, Ev("fail", Target)), out |-> "abort"]
                  ELSE LET f2 == IF bk THEN CopyFile(f, Target, Bak(Target)) ELSE f
                           o2 == IF bk THEN Append(o1, Ev("backup", Target)) ELSE o1
                       IN  IF file_exists(f2, c)
                           THEN [fs |-> f2, ops |-> Append(o2, Ev("fail", Target)), out |-> "exit1"]
                           ELSE [fs |-> f2, ops |-> o2, out |-> "continue"]
         ELSE [fs |-> f, ops |-> o, out |-> "continue"]
    ELSE IF IsDirectory(f, Source)
         THEN [fs |-> CreateDirectory(f, Target), ops |-> Append(o, Ev("mkdir", Target)), out |-> "continue"]
         ELSE [fs |-> f, ops |-> o, out |-> "continue"]

\* main, l.205-235: the top-level target check.
\* out: "continue", or the way main ends ("exit0", "exit1", "abort").
target_check(f, o, c, response) ==
    IF Exists(f, Target)
    THEN IF ~IsDirectory(f, Target)
         THEN LET o1 == IF c.interactive THEN Append(o, Ev("prompt", Target)) ELSE o
              IN  IF c.interactive /\ Declined(response)
                  THEN [fs |-> f, ops |-> Append(o1, Ev("declined", Target)), out |-> "exit0"]
                  ELSE IF c.backup /\ CopyFileThrows(f, Target, Bak(Target))
                  THEN [fs |-> f, ops |-> Append(o1, Ev("fail", Target)), out |-> "abort"]
                  ELSE LET f2 == IF c.backup THEN CopyFile(f, Target, Bak(Target)) ELSE f
                           o2 == IF c.backup THEN Append(o1, Ev("backup", Target)) ELSE o1
                       IN  IF file_exists(f2, c)
                           THEN [fs |-> f2, ops |-> Append(o2, Ev("fail", Target)), out |-> "exit1"]
                           ELSE [fs |-> f2, ops |-> o2, out |-> "continue"]
         ELSE [fs |-> f, ops |-> o, out |-> "continue"]
    ELSE IF IsDirectory(f, Source)
         THEN [fs |-> CreateDirectory(f, Target), ops |-> Append(o, Ev("mkdir", Target)), out |-> "continue"]
         ELSE [fs |-> f, ops |-> o, out |-> "continue"]

\* target_path without the directory case (l.255-258 left out).
target_path_as_given(f) == Target

\* main, l.252-258: where a single file goes.
target_path(f) == IF IsDirectory(f, Target) THEN Join(Target, Filename(Source)) ELSE Target

\* main, l.250-290: the single-file branch.
single_file(f, o, c, response, oserr) ==
    LET tp == target_path(f)
        conflict == Exists(f, tp) /\ ~c.force
        o1 == IF conflict /\ c.interactive THEN Append(o, Ev("prompt", tp)) ELSE o
    IN  IF conflict /\ c.interactive /\ Declined(response)
        THEN [fs |-> f, ops |-> Append(o1, Ev("declined", tp)), out |-> "exit0"]
        ELSE IF conflict /\ c.backup /\ CopyFileThrows(f, tp, Bak(tp))
        THEN [fs |-> f, ops |-> Append(o1, Ev("fail", tp)), out |-> "abort"]
        ELSE LET f2 == IF conflict /\ c.backup THEN CopyFile(f, tp, Bak(tp)) ELSE f
                 o2 == IF conflict /\ c.backup THEN Append(o1, Ev("backup", tp)) ELSE o1
                 cl == clone_file(f2, o2, Source, tp, oserr)
             IN  IF ~cl.ok
                 THEN [fs |-> cl.fs, ops |-> cl.ops, out |-> "exit1"]
                 ELSE [fs |-> IF c.preserve_permissions THEN Permissions(cl.fs, tp, Source) ELSE cl.fs,
                       ops |-> cl.ops, out |-> "exit0"]

\* The walker's backup left out (l.96-99).
backup_existing_skipped(f, o, c, tp) == [threw |-> FALSE, fs |-> f, ops |-> o]

\* copy_directory, l.96-99: back up the existing target of a file entry.
backup_existing(f, o, c, tp) ==
    IF c.backup /\ Exists(f, tp)
    THEN IF CopyFileThrows(f, tp, Bak(tp))
         THEN [threw |-> TRUE, fs |-> f, ops |-> o]
         ELSE [threw |-> FALSE, fs |-> CopyFile(f, tp, Bak(tp)), ops |-> Append(o, Ev("backup", tp))]
    ELSE [threw |-> FALSE, fs |-> f, ops |-> o]

\* copy_directory, l.87-110: one file entry.  dirNewer stands for the result
\* of is_newer when the target path is a directory (directory mtimes are not
\* modelled).  ok = FALSE is `return false`.
file_entry(f, o, c, sp, tp, oserr, dirNewer) ==
    LET newer == IF IsFile(f, tp) THEN is_newer(f, sp, tp) ELSE dirNewer
    IN  IF c.update /\ Exists(f, tp) /\ ~newer
        THEN [ok |-> TRUE, fs |-> f, ops |-> Append(o, Ev("skip", tp))]
        ELSE IF backup_existing(f, o, c, tp).threw
        THEN [ok |-> FALSE, fs |-> f, ops |-> Append(o, Ev("fail", tp))]
        ELSE LET b == backup_existing(f, o, c, tp)
                 cl == clone_file(b.fs, b.ops, sp, tp, oserr)
             IN  IF ~cl.ok
                 THEN cl
                 ELSE [ok |-> TRUE,
                       fs |-> IF c.preserve_permissions THEN Permissions(cl.fs, tp, sp) ELSE cl.fs,
                       ops |-> cl.ops]

\* dir_entry without the create_directory call (l.83 left out).
dir_entry_no_mkdir(f, o, tp) == [ok |-> TRUE, fs |-> f, ops |-> o]

\* copy_directory, l.80-86: one directory entry, up to the recursive call.
dir_entry(f, o, tp) ==
    IF CreateDirectoryThrows(f, tp)
    THEN [ok |-> FALSE, fs |-> f, ops |-> Append(o, Ev("fail", tp))]
    ELSE [ok |-> TRUE, fs |-> CreateDirectory(f, tp),
          ops |-> IF IsDirectory(f, tp) THEN o ELSE Append(o, Ev("mkdir", tp))]

\* process without the test of the recursive flag (l.240).
process_always_recursive(f, c) == IF IsDirectory(f, Source) THEN "walk" ELSE "single"

\* main, l.238-250: which branch processes the source.
process(f, c) ==
    IF IsDirectory(f, Source)
    THEN IF c.recursive THEN "walk" ELSE "exit1"
    ELSE "single"

Frame(s, t) == [src |-> s, dst |-> t, todo |-> <<>>, open |-> FALSE]
Top == stack[Len(stack)]
SetTop(fr) == [stack EXCEPT ![Len(stack)] = fr]

\* What the OS may do to a clonefile or an enumeration in this behaviour.
Faults == IF faulty THEN {FALSE, TRUE} ELSE {FALSE}

----------------------------------------------------------------------------
(* The state machine *)

Flags == [recursive : BOOLEAN, preserve_permissions : BOOLEAN, backup : BOOLEAN,
          force : BOOLEAN, interactive : BOOLEAN, update : BOOLEAN]

InitWith(flt) ==
    /\ fs \in {s @@ t : s \in SourceStates, t \in TargetStates}
    /\ pre = fs
    /\ after1 = Empty
    /\ cfg \in Flags
    /\ pc = "start"
    /\ stack = <<>>
    /\ exitCode = 0
    /\ ops = <<>>
    /\ run = "first"
    /\ enum = Empty
    /\ faulty = flt

Init == InitWith(FALSE)
InitFault == InitWith(TRUE)

Finish(code) == pc' = "done" /\ exitCode' = code

Leave(out) ==
    Finish(CASE out = "exit0" -> 0 [] out = "exit1" -> 1 [] OTHER -> 134)

\* main, l.196-201
CheckSource ==
    /\ pc = "start"
    /\ IF Exists(fs, Source)
       THEN pc' = "target" /\ UNCHANGED <<exitCode, ops>>
       ELSE Finish(1) /\ ops' = Append(ops, Ev("fail", Source))
    /\ UNCHANGED <<fs, pre, after1, cfg, stack, run, enum, faulty>>

\* main, l.203-235
CheckTarget ==
    /\ pc = "target"
    /\ \E response \in Responses :
         LET r == target_check(fs, ops, cfg, response)
         IN  /\ fs' = r.fs
             /\ ops' = r.ops
             /\ IF r.out = "continue"
                THEN pc' = "dispatch" /\ UNCHANGED exitCode
                ELSE Leave(r.out)
    /\ UNCHANGED <<pre, after1, cfg, stack, run, enum, faulty>>

\* main, l.237-250: directory or file, recursive or not
Dispatch ==
    /\ pc = "dispatch"
    /\ LET to == process(fs, cfg)
       IN  /\ pc' = IF to = "exit1" THEN "done" ELSE to
           /\ exitCode' = IF to = "exit1" THEN 1 ELSE exitCode
           /\ stack' = IF to = "walk" THEN <<Frame(Source, Target)>> ELSE stack
           /\ ops' = IF to = "exit1" THEN Append(ops, Ev("fail", Source)) ELSE ops
    /\ UNCHANGED <<fs, pre, after1, cfg, run, enum, faulty>>

\* main, l.250-290
SingleFile ==
    /\ pc = "single"
    /\ \E response \in Responses, oserr \in Faults :
         LET r == single_file(fs, ops, cfg, response, oserr)
         IN  fs' = r.fs /\ ops' = r.ops /\ Leave(r.out)
    /\ UNCHANGED <<pre, after1, cfg, stack, run, enum, faulty>>

\* The order fs::directory_iterator yields is the filesystem's choice; an
\* unchanged directory is enumerated in the same order every time.
IterationOrders(d) ==
    IF d \in DOMAIN enum THEN {enum[d]} ELSE Orders(ChildNames(fs, d))

\* copy_directory, l.74-76: the directory iterator is created; the entries
\* come in an order the filesystem chooses, or the enumeration throws.
OpenDir ==
    /\ pc = "walk" /\ stack # <<>> /\ ~Top.open
    /\ \E enumerr \in Faults :
         IF enumerr \/ ~IsDirectory(fs, Top.src)
         THEN Finish(1) /\ ops' = Append(ops, Ev("fail", Top.src)) /\ UNCHANGED <<stack, enum>>
         ELSE /\ \E order \in IterationOrders(Top.src) :
                    /\ stack' = SetTop([Top EXCEPT !.todo = order, !.open = TRUE])
                    /\ enum' = (Top.src :> order) @@ enum
              /\ UNCHANGED <<pc, exitCode, ops>>
    /\ UNCHANGED <<fs, pre, after1, cfg, run, faulty>>

\* copy_directory, l.80-86: the next entry is a directory
WalkDirEntry ==
    /\ pc = "walk" /\ stack # <<>> /\ Top.open /\ Top.todo # <<>>
    /\ LET n == Head(Top.todo)
           sp == Join(Top.src, n)
           tp == Join(Top.dst, n)
           r == dir_entry(fs, ops, tp)
       IN  /\ IsDirectory(fs, sp)
           /\ fs' = r.fs
           /\ ops' = r.ops
           /\ IF r.ok
              THEN /\ stack' = Append(SetTop([Top EXCEPT !.todo = Tail(Top.todo)]), Frame(sp, tp))
                   /\ UNCHANGED <<pc, exitCode>>
              ELSE Finish(1) /\ stack' = SetTop([Top EXCEPT !.todo = Tail(Top.todo)])
    /\ UNCHANGED <<pre, after1, cfg, run, enum, faulty>>

\* copy_directory, l.87-110: the next entry is a file
WalkFileEntry ==
    /\ pc = "walk" /\ stack # <<>> /\ Top.open /\ Top.todo # <<>>
    /\ LET n == Head(Top.todo)
           sp == Join(Top.src, n)
           tp == Join(Top.dst, n)
       IN  /\ ~IsDirectory(fs, sp)
           /\ \E oserr \in Faults, dirNewer \in BOOLEAN :
                LET r == file_entry(fs, ops, cfg, sp, tp, oserr, dirNewer)
                IN  /\ fs' = r.fs
                    /\ ops' = r.ops
                    /\ stack' = SetTop([Top EXCEPT !.todo = Tail(Top.todo)])
                    /\ IF r.ok THEN UNCHANGED <<pc, exitCode>> ELSE Finish(1)
    /\ UNCHANGED <<pre, after1, cfg, run, enum, faulty>>

\* copy_directory, l.111-116: the loop ends and the call returns true;
\* main, l.289-290 when it was the outermost call.
WalkReturn ==
    /\ pc = "walk" /\ stack # <<>> /\ Top.open /\ Top.todo = <<>>
    /\ stack' = SubSeq(stack, 1, Len(stack) - 1)
    /\ IF Len(stack) = 1 THEN Finish(0) ELSE UNCHANGED <<pc, exitCode>>
    /\ UNCHANGED <<fs, pre, after1, cfg, ops, run, enum, faulty>>

\* The same command line is run once more.
Rerun ==
    /\ pc = "done" /\ run = "first"
    /\ run' = "second"
    /\ after1' = fs
    /\ pre' = fs
    /\ pc' = "start"
    /\ stack' = <<>>
    /\ exitCode' = 0
    /\ ops' = <<>>
    /\ UNCHANGED <<fs, cfg, enum, faulty>>

Next ==
    \/ CheckSource
    \/ CheckTarget
    \/ Dispatch
    \/ SingleFile
    \/ OpenDir
    \/ WalkDirEntry
    \/ WalkFileEntry
    \/ WalkReturn
    \/ Rerun

Spec == Init /\ [][Next]_vars
SpecFault == InitFault /\ [][Next]_vars

TypeOK ==
    /\ pc \in {"start", "target", "dispatch", "single", "walk", "done"}
    /\ exitCode \in {0, 1, 134}
    /\ run \in {"first", "second"}
    /\ cfg \in Flags

----------------------------------------------------------------------------
(* Vocabulary of the properties *)

Done == pc = "done"

\* The single-file run's destination, read off the pre-run filesystem.
EffectiveTarget == IF IsDirectory(pre, Target) THEN Target \o <<Source[Len(Source)]>> ELSE Target

\* Paths below root, relative to it.
RelPaths(f, root) == {SubSeq(p, Len(root) + 1, Len(p)) : p \in {q \in DOMAIN f : IsPrefix(root, q)}}

\* Path p is the same in f and g: absent in both, or the same kind and data.
SameAt(f, g, p) ==
    /\ Exists(f, p) = Exists(g, p)
    /\ Exists(f, p) => /\ f[p].kind = g[p].kind
                       /\ f[p].kind = "file" => f[p].data = g[p].data
SameTree(f, g) == \A p \in DOMAIN f \cup DOMAIN g : SameAt(f, g, p)

\* p~ is a regular file holding what p held before the run.
BackedUp(p) == IsFile(fs, Bak(p)) /\ fs[Bak(p)].data = pre[p].data

Logged(op, p) == \E i \in 1..Len(ops) : ops[i] = Ev(op, p)
LoggedOp(op) == \E i \in 1..Len(ops) : ops[i].op = op

----------------------------------------------------------------------------
(* C1: Force overwrite.  For a regular-file source and a target that        *)
(* pre-exists as a regular file, a run with force and without interactive   *)
(* exits 0 and leaves target with the source's content; with backup, target~*)
(* then holds target's pre-run content.                                     *)
C1_ForceOverwrite ==
    (Done /\ IsFile(pre, Source) /\ IsFile(pre, Target) /\ cfg.force /\ ~cfg.interactive)
    => /\ exitCode = 0
       /\ IsFile(fs, Target) /\ fs[Target].data = pre[Source].data
       /\ cfg.backup => BackedUp(Target)

(* C2: Single-file mirror.  For a regular-file source and any flags, if the *)
(* effective target does not exist before the run and the clone primitive   *)
(* succeeds, the run exits 0, the effective target is a file with the       *)
(* source's content, and the source is unchanged.                           *)
C2_SingleFileMirror ==
    (Done /\ IsFile(pre, Source) /\ ~Exists(pre, EffectiveTarget) /\ ~LoggedOp("clonefile_error"))
    => /\ exitCode = 0
       /\ IsFile(fs, EffectiveTarget)
       /\ fs[EffectiveTarget].data = pre[Source].data
       /\ fs[Source] = pre[Source]

C2_Witness ==
    /\ Done /\ run = "first" /\ exitCode = 0
    /\ IsFile(pre, Source) /\ IsDirectory(pre, Target) /\ ~Exists(pre, EffectiveTarget)
    /\ cfg.interactive /\ cfg.backup /\ cfg.preserve_permissions
    /\ IsFile(fs, EffectiveTarget) /\ fs[EffectiveTarget].data = Source

(* C3: Tree mirror.  For a source directory tree, a recursive run onto a    *)
(* target that does not exist beforehand exits 0, and then the relative     *)
(* paths under target are those under source, each of the same kind and,    *)
(* for files, the same content.  (Spec: the OS fails no clonefile and no    *)
(* enumeration.)                                                            *)
C3_TreeMirror ==
    (Done /\ IsDirectory(pre, Source) /\ cfg.recursive /\ ~Exists(pre, Target))
    => /\ exitCode = 0
       /\ RelPaths(fs, Target) = RelPaths(fs, Source)
       /\ \A r \in RelPaths(fs, Source) :
            /\ fs[Target \o r].kind = fs[Source \o r].kind
            /\ fs[Source \o r].kind = "file" => fs[Target \o r].data = fs[Source \o r].data
       /\ \A p \in DOMAIN pre : IsPrefix(Source, p) => fs[p] = pre[p]

C3_Witness ==
    /\ Done /\ exitCode = 0 /\ IsDirectory(pre, Source) /\ cfg.recursive /\ ~Exists(pre, Target)
    /\ IsFile(fs, <<"t", "a", "a">>) /\ IsFile(fs, <<"t", "b">>)

(* C4: Conflict semantics.  When target pre-exists as a regular file and    *)
(* force and interactive are both off, then whatever the source and the     *)
(* other flags the run ends with a non-zero exit code and target is what it *)
(* was before the run.                                                      *)
C4_Conflict ==
    (Done /\ IsFile(pre, Target) /\ ~cfg.force /\ ~cfg.interactive)
    => exitCode # 0 /\ fs[Target] = pre[Target]

C4_Witness ==
    /\ Done /\ run = "first" /\ exitCode = 1
    /\ IsFile(pre, Target) /\ ~cfg.force /\ ~cfg.interactive
    /\ IsDirectory(pre, Source) /\ cfg.recursive /\ cfg.backup /\ cfg.update
    /\ IsFile(fs, Bak(Target))

\* The files a recursive run mirrors, as paths relative to the source root,
\* and the targets of the files a run mirrors.
TreeFiles == {r \in RelPaths(pre, Source) : IsFile(pre, Source \o r)}
TreeTargets == {Target \o r : r \in TreeFiles}
MirroredTargets ==
    IF IsFile(pre, Source) THEN {Target, EffectiveTarget}
    ELSE IF IsDirectory(pre, Source) /\ cfg.recursive THEN TreeTargets
    ELSE {}
\* The source file mirrored onto target p.
SourceOf(p) ==
    IF IsFile(pre, Source) THEN Source ELSE Source \o SubSeq(p, Len(Target) + 1, Len(p))

C6_Idempotent ==
    (Done /\ run = "second" /\ cfg.force /\ ~cfg.update) => SameTree(fs, after1)

(* C6 as amended: the same, provided backup is off (a second run backs up   *)
(* what the first run created), the OS fails no clone or enumeration, and   *)
(* the source directories enumerate in the same order in both runs.         *)
C6_IdempotentNoBackup ==
    (Done /\ run = "second" /\ cfg.force /\ ~cfg.update /\ ~cfg.backup) => SameTree(fs, after1)

C6_Witness ==
    /\ Done /\ run = "second" /\ cfg.force /\ ~cfg.update /\ ~cfg.backup /\ cfg.recursive
    /\ exitCode = 1 /\ LoggedOp("clone_file")
    /\ IsFile(fs, <<"t", "a", "a">>) /\ fs[<<"t", "a", "a">>].data = <<"a", "a", "a">>
    /\ SameTree(fs, after1)

(* C7: Interactive policy.  With interactive on, every file whose target    *)
(* pre-exists as a regular file (top-level or met in a tree walk) is        *)
(* prompted for before it is backed up or cloned, and a declined prompt     *)
(* leaves the filesystem as it was and is not an error.                     *)
C7_PromptBeforeWrite ==
    cfg.interactive
    => /\ \A i \in 1..Len(ops) :
            (ops[i].op \in {"backup", "cloned"} /\ IsFile(pre, ops[i].path))
            => \E j \in 1..(i - 1) : ops[j] = Ev("prompt", ops[i].path)
       /\ LoggedOp("declined") => (fs = pre /\ (Done => exitCode = 0))

\* Target p exists before the run with an mtime not older than its source's.
NotOlder(p) == IsFile(pre, p) /\ pre[p].mtime >= pre[SourceOf(p)].mtime

(* C8: Update semantics.  With update on, a mirrored file's target that     *)
(* exists with an mtime not older than its source's is unchanged by the     *)
(* run; in a tree walk such an entry is skipped without error: it is        *)
(* neither backed up nor cloned nor failed, and the walk goes on.           *)
C8_UpdateSkip ==
    cfg.update
    => /\ \A p \in MirroredTargets : NotOlder(p) => (Exists(fs, p) /\ fs[p] = pre[p])
       /\ IsDirectory(pre, Source)
            => \A i \in 1..Len(ops) :
                 (ops[i].path \in TreeTargets /\ NotOlder(ops[i].path))
                 => ops[i].op = "skip"
       /\ (ops # <<>> /\ ops[Len(ops)].op = "skip") => (pc = "walk" \/ (Done /\ exitCode = 0))

C8_Witness ==
    /\ Done /\ exitCode = 0 /\ cfg.update /\ cfg.backup /\ cfg.recursive
    /\ IsDirectory(pre, Source)
    /\ IsFile(pre, <<"a", "b">>) /\ IsFile(pre, <<"t", "b">>)
    /\ pre[<<"t", "b">>].mtime = pre[<<"a", "b">>].mtime
    /\ \E i \in 1..Len(ops) : /\ ops[i] = Ev("skip", <<"t", "b">>)
                              /\ \E j \in (i + 1)..Len(ops) : ops[j] = Ev("cloned", <<"t", "a", "a">>)
    /\ fs[<<"t", "b">>] = pre[<<"t", "b">>] /\ ~Exists(fs, <<"t", "b~">>)

(* C9: Non-recursive directory source.  If the source is a directory and    *)
(* recursive is off, then for every target state and the other flags the    *)
(* run exits 1 and the filesystem is exactly what it was before the run.    *)
C9_NonRecursiveNoChange ==
    (Done /\ IsDirectory(pre, Source) /\ ~cfg.recursive) => (exitCode = 1 /\ fs = pre)

(* C9 as amended: such a run clones nothing and never enters the tree walk; *)
(* it exits non-zero, or 0 when the user declines the prompt for a          *)
(* pre-existing file target.  It may leave two traces: target created as an *)
(* empty directory when it did not exist, and target~ holding target's      *)
(* content when target is a regular file and backup is on.  Everything else *)
(* is as before the run.                                                    *)
C9_NonRecursiveNoCopy ==
    (Done /\ IsDirectory(pre, Source) /\ ~cfg.recursive)
    => /\ (exitCode = 0) = Logged("declined", Target)
       /\ ~LoggedOp("clone_file") /\ ~LoggedOp("skip") /\ stack = <<>>
       /\ \A p \in (DOMAIN fs \cup DOMAIN pre) \ {Target, Bak(Target)} :
            Exists(fs, p) /\ Exists(pre, p) /\ fs[p] = pre[p]
       /\ IF Exists(pre, Target) THEN fs[Target] = pre[Target] ELSE IsDirectory(fs, Target)
       /\ IF cfg.backup /\ IsFile(pre, Target) /\ ~Logged("declined", Target)
          THEN BackedUp(Target)
          ELSE /\ Exists(fs, Bak(Target)) = Exists(pre, Bak(Target))
               /\ Exists(fs, Bak(Target)) => fs[Bak(Target)] = pre[Bak(Target)]

C9_Witness ==
    /\ Done /\ IsDirectory(pre, Source) /\ ~cfg.recursive /\ exitCode = 1 /\ run = "first"
    /\ IsFile(pre, <<"a", "a", "a">>) /\ cfg.force
    /\ ~Exists(pre, Target) /\ IsDirectory(fs, Target)

\* The walk ended by a failure: the copy_directory calls never returned true.
WalkFailed == Done /\ stack # <<>>
\* Nothing at or below tp, or its backup name, differs from before the run.
Untouched(tp) ==
    \A p \in DOMAIN fs \cup DOMAIN pre :
        (IsPrefix(tp, p) \/ IsPrefix(Bak(tp), p))
        => (Exists(fs, p) /\ Exists(pre, p) /\ fs[p] = pre[p])

(* C10: First-failure abort.  In a recursive mirror, once an entry's step   *)
(* fails (a clone failure at any depth, an enumeration error), nothing more *)
(* is done: the run ends with exit code 1, no entry later in enumeration    *)
(* order, in the failing directory or any enclosing one, is created, backed *)
(* up or cloned, and what was mirrored before the failure is still there.   *)
C10_FirstFailureAbort ==
    /\ \A i \in 1..Len(ops) : ops[i].op = "fail" => (i = Len(ops) /\ Done /\ exitCode # 0)
    /\ WalkFailed
         => /\ exitCode = 1
            /\ ops # <<>> /\ ops[Len(ops)].op = "fail"
            /\ \A k \in 1..Len(stack) : \A j \in 1..Len(stack[k].todo) :
                 Untouched(Join(stack[k].dst, stack[k].todo[j]))
    /\ \A i \in 1..Len(ops) :
         /\ ops[i].op = "cloned" => (IsFile(fs, ops[i].path) /\ fs[ops[i].path].data = pre[SourceOf(ops[i].path)].data)
         /\ ops[i].op = "mkdir" => IsDirectory(fs, ops[i].path)
         /\ ops[i].op = "backup" => BackedUp(ops[i].path)

C10_Witness ==
    /\ WalkFailed /\ exitCode = 1 /\ Len(stack) = 2 /\ stack[1].todo = <<"b">>
    /\ Logged("mkdir", <<"t", "a">>) /\ Logged("clonefile_error", <<"t", "a", "a">>)
    /\ IsFile(pre, <<"a", "b">>) /\ ~Exists(fs, <<"t", "b">>)

====
